---------------------------- MODULE Spec2Model ----------------------------
(***************************************************************************)
(* A model of the brainfck interpreter (src/src/lib.rs): the Interpreter   *)
(* struct, step(), skip_loop(), run() and the push_* operations.           *)
(*                                                                         *)
(* Indices (pc, ptr, entries of open_loops) are 0-based as in the source;  *)
(* TLA+ sequences are 1-based, so the byte at pc is program[pc + 1].       *)
(* An Option<T> is a sequence of length 0 (None) or 1 (Some).              *)
(***************************************************************************)
EXTENDS Integers, Sequences, FiniteSets, TLC

(***************************************************************************)
(* Bounds of the model.                                                    *)
(***************************************************************************)
\* const MS: inline size of the tape (a const generic of Interpreter)
MS == 2
\* const LS: inline size of the open_loops stack
LS == 2
\* longest program buffer
MaxProg == 3
\* longest program of the tape runs
MaxTapeProg == 4
\* longest program of the single runs
MaxRunProg == 4
\* longest program of the split runs
MaxSplitProg == 4
\* longest output
MaxOutput == 2
\* longest input
MaxInput == 1
\* how many times the tape may be extended
MaxExtends == 1
\* a heap buffer's capacity exceeds its length by at most this much
MaxSlack == 1
\* longest program given at construction
MaxInit == 2
\* longest slice or iterator pushed at once
MaxSlice == 2
\* storage runs: how many bytes may be appended beyond the longest test program
MaxStorePush == 1
\* longest program of the loop runs
MaxLoopProg == 5

(***************************************************************************)
(* Program constants.                                                      *)
(***************************************************************************)
GT == 62
LT == 60
PLUS == 43
MINUS == 45
DOT == 46
COMMA == 44
LBRACK == 91
RBRACK == 93
\* cells are u8
CellMod == 256
\* the tape grows by &[0; 100]
Chunk == 100
\* usize::MAX, narrowed to the checker's integers: all that matters is
\* that it is no valid index of any tape
UsizeMax == 2147483647

\* u8::is_ascii_whitespace: tab, line feed, form feed, carriage return, space
AsciiWhitespace == {9, 10, 12, 13, 32}

Instructions == {GT, LT, PLUS, MINUS, DOT, COMMA, LBRACK, RBRACK}

None == <<>>
Some(x) == <<x>>

\* enum Error, and the two other ways a call can end
Ok == "Ok"
ErrOutput == "Output"
ErrMissingOpenLoop == "MissingOpenLoop"
ErrUnexpectedByte == "UnexpectedByte"
ErrOpenLoopsRemain == "OpenLoopsRemain"
\* a Rust panic (index out of bounds, arithmetic overflow with overflow checks)
Panic == "Panic"

VARIABLES
  memory,             \* TinyVec<u8, MS>: the cells (its length is the tape length)
  mem_cap,            \* memory.capacity()
  mem_heap,           \* the tape has moved to the heap
  ptr,                \* cell pointer
  pc,                 \* program counter
  program,            \* Cow<u8, PS>: the program bytes
  prog_owned,         \* the Cow is the Owned variant
  input,              \* the bytes the input iterator will still yield
  output,             \* the bytes the sink has accepted
  open_loops,         \* TinyVec<usize, LS>
  loops_heap,         \* open_loops has moved to the heap
  skiping_open_loop,  \* Option<usize>
  overflow_checks,    \* the build's overflow-checks setting (debug: on, release: off)
  running,            \* the caller is inside run()'s while loop
  call,               \* the last operation called
  ret,                \* what the last step()/run() returned
  ins,                \* Some(byte) the last step() dispatched, else None
  arg,                \* the bytes the last call was given to append (none for step and run)
  rest,               \* split runs: the program bytes not yet appended
  whole,              \* split runs: the interpreter that was given the whole program
  cuts                \* split runs: where the appends so far have cut the program

vars == <<memory, mem_cap, mem_heap, ptr, pc, program, prog_owned, input, output,
          open_loops, loops_heap, skiping_open_loop, overflow_checks, running,
          call, ret, ins, arg, rest, whole, cuts>>

(***************************************************************************)
(* The interpreter as a record, so that step() is an operator on it.       *)
(***************************************************************************)
Self ==
  [memory |-> memory, mem_cap |-> mem_cap, mem_heap |-> mem_heap, ptr |-> ptr,
   pc |-> pc, program |-> program, prog_owned |-> prog_owned, input |-> input,
   output |-> output, open_loops |-> open_loops, loops_heap |-> loops_heap,
   skiping_open_loop |-> skiping_open_loop]

Zeros(n) == [i \in 1..n |-> 0]

\* Interpreter::with_custom_stack
with_custom_stack(prog, in) ==
  [memory |-> Zeros(MS), mem_cap |-> MS, mem_heap |-> FALSE, ptr |-> 0,
   pc |-> 0, program |-> prog, prog_owned |-> FALSE, input |-> in,
   output |-> <<>>, open_loops |-> <<>>, loops_heap |-> FALSE,
   skiping_open_loop |-> None]

\* what a call hands back: the interpreter after it, its result, the byte dispatched
Outcome(s, r, i) == [st |-> s, ret |-> r, ins |-> i]


(***************************************************************************)
(* skip_loop(): the forward bracket scan.                                  *)
(***************************************************************************)
\* mutant: the scan stops at the first ']', whatever was opened before it
RECURSIVE ScanFlat(_, _, _)
ScanFlat(prog, p, nest) ==
  IF nest = 0 \/ p >= Len(prog)
  THEN [pc |-> p, nest |-> nest]
  ELSE ScanFlat(prog, p + 1, IF prog[p + 1] = RBRACK THEN 0 ELSE nest)

\* the while loop of skip_loop: from pc with depth nest, to the pc and depth
\* at which it stops (nest = 0, or the end of the buffered program)
RECURSIVE Scan(_, _, _)
Scan(prog, p, nest) ==
  IF nest = 0 \/ p >= Len(prog)
  THEN [pc |-> p, nest |-> nest]
  ELSE LET next_ins == prog[p + 1]
           n1 == IF next_ins = LBRACK THEN nest + 1 ELSE nest
           n2 == IF next_ins = RBRACK THEN n1 - 1 ELSE n1
       IN  Scan(prog, p + 1, n2)

\* self.skiping_open_loop.take().unwrap_or(1)
StartNest(s) ==
  IF s.skiping_open_loop = None THEN 1 ELSE s.skiping_open_loop[1]

\* mutant: the depth of an interrupted scan is not stored
skip_loop_forgets(s, i) ==
  LET r == Scan(s.program, s.pc, StartNest(s))
  IN  IF r.nest = 0
      THEN Outcome([s EXCEPT !.pc = r.pc, !.skiping_open_loop = None], Ok, i)
      ELSE Outcome([s EXCEPT !.pc = r.pc], ErrOpenLoopsRemain, i)

\* mutant: a byte that is no instruction stops the scan with an error
skip_loop_strict(s, i) ==
  LET r == Scan(s.program, s.pc, StartNest(s))
      scanned == {s.program[k] : k \in (s.pc + 1)..r.pc}
  IN  IF scanned \subseteq (Instructions \cup AsciiWhitespace)
      THEN IF r.nest = 0
           THEN Outcome([s EXCEPT !.pc = r.pc, !.skiping_open_loop = None], Ok, i)
           ELSE Outcome([s EXCEPT !.pc = r.pc, !.skiping_open_loop = Some(r.nest)],
                        ErrOpenLoopsRemain, i)
      ELSE Outcome(s, ErrUnexpectedByte, i)

skip_loop(s, i) ==
  LET r == Scan(s.program, s.pc, StartNest(s))
  IN  IF r.nest = 0
      THEN Outcome([s EXCEPT !.pc = r.pc, !.skiping_open_loop = None], Ok, i)
      ELSE Outcome([s EXCEPT !.pc = r.pc, !.skiping_open_loop = Some(r.nest)],
                   ErrOpenLoopsRemain, i)

(***************************************************************************)
(* step(): one instruction.                                                *)
(***************************************************************************)
\* the index check of self.memory[self.ptr]
InBounds(s) == s.ptr < Len(s.memory)

Cell(s) == s.memory[s.ptr + 1]

\* u8 += 1: Some(result), or None for the overflow panic of a build with
\* overflow checks
AddOne(v, oc) ==
  IF v + 1 < CellMod THEN Some(v + 1)
  ELSE IF oc THEN None ELSE Some((v + 1) % CellMod)

\* u8 -= 1
SubOne(v, oc) ==
  IF v >= 1 THEN Some(v - 1)
  ELSE IF oc THEN None ELSE Some((v - 1) % CellMod)

\* mutant: the tape grows by the one missing cell
ExtendedByOne(s, slack) ==
  [s EXCEPT !.memory = Append(s.memory, 0),
            !.mem_cap = Len(s.memory) + 1 + slack,
            !.mem_heap = TRUE]

\* self.memory.extend_from_slice(&[0; 100]); the heap buffer's capacity is
\* the library's choice, at least its length
Extended(s, slack) ==
  [s EXCEPT !.memory = s.memory \o Zeros(Chunk),
            !.mem_cap = Len(s.memory) + Chunk + slack,
            !.mem_heap = TRUE]

\* b'>'
MoveRight(s, slack, oc) ==
  LET t == IF s.ptr = s.mem_cap THEN Extended(s, slack) ELSE s
  IN  IF t.ptr = UsizeMax
      THEN IF oc THEN Outcome(t, Panic, Some(GT))
                 ELSE Outcome([t EXCEPT !.ptr = 0], Ok, Some(GT))
      ELSE Outcome([t EXCEPT !.ptr = t.ptr + 1], Ok, Some(GT))

\* b'<'
MoveLeft(s, oc) ==
  IF s.ptr = 0
  THEN IF oc THEN Outcome(s, Panic, Some(LT))
             ELSE Outcome([s EXCEPT !.ptr = UsizeMax], Ok, Some(LT))
  ELSE Outcome([s EXCEPT !.ptr = s.ptr - 1], Ok, Some(LT))

\* b'+'
Increment(s, oc) ==
  IF ~InBounds(s) THEN Outcome(s, Panic, Some(PLUS))
  ELSE LET v == AddOne(Cell(s), oc)
       IN  IF v = None THEN Outcome(s, Panic, Some(PLUS))
           ELSE Outcome([s EXCEPT !.memory[s.ptr + 1] = v[1]], Ok, Some(PLUS))

\* b'-'
Decrement(s, oc) ==
  IF ~InBounds(s) THEN Outcome(s, Panic, Some(MINUS))
  ELSE LET v == SubOne(Cell(s), oc)
       IN  IF v = None THEN Outcome(s, Panic, Some(MINUS))
           ELSE Outcome([s EXCEPT !.memory[s.ptr + 1] = v[1]], Ok, Some(MINUS))

\* what Writer::push_byte may do with a byte: a Vec, a TinyVec or an
\* io::Write that succeeds keeps it, NoOutput drops it and returns Ok, an
\* io::Write may fail
Accept == "Accept"
Discard == "Discard"
Fail == "Fail"

\* b'.': answer is what the sink's push_byte does
Write(s, answer) ==
  IF ~InBounds(s) THEN Outcome(s, Panic, Some(DOT))
  ELSE CASE answer = Accept ->
              Outcome([s EXCEPT !.output = Append(s.output, Cell(s))], Ok, Some(DOT))
         [] answer = Discard -> Outcome(s, Ok, Some(DOT))
         [] answer = Fail -> Outcome(s, ErrOutput, Some(DOT))

\* mutant: an exhausted input reads as 255 (the C library's EOF)
NextByteEof(in) == IF in = <<>> THEN 255 ELSE Head(in)

\* self.input.next().unwrap_or(b'\0')
NextByte(in) == IF in = <<>> THEN 0 ELSE Head(in)

\* the iterator after next()
Advance(in) == IF in = <<>> THEN <<>> ELSE Tail(in)

\* b','
Read(s) ==
  LET t == [s EXCEPT !.input = Advance(s.input)]
  IN  IF ~InBounds(s) THEN Outcome(t, Panic, Some(COMMA))
      ELSE Outcome([t EXCEPT !.memory[s.ptr + 1] = NextByte(s.input)], Ok, Some(COMMA))

\* mutant: the loop start is recorded after pc was advanced
PushLoopAtPc(s) ==
  [s EXCEPT !.open_loops = Append(s.open_loops, s.pc),
            !.loops_heap = s.loops_heap \/ Len(s.open_loops) + 1 > LS]

\* mutant: the loop start is put under the entries of open_loops
PushLoopUnder(s) ==
  [s EXCEPT !.open_loops = <<s.pc - 1>> \o s.open_loops,
            !.loops_heap = s.loops_heap \/ Len(s.open_loops) + 1 > LS]

\* self.open_loops.push(self.pc - 1)
PushLoop(s) ==
  [s EXCEPT !.open_loops = Append(s.open_loops, s.pc - 1),
            !.loops_heap = s.loops_heap \/ Len(s.open_loops) + 1 > LS]

\* mutant: a loop that is skipped is recorded as open all the same
OpenLoopRecordsSkipped(s) ==
  IF ~InBounds(s) THEN Outcome(s, Panic, Some(LBRACK))
  ELSE IF Cell(s) = 0 THEN skip_loop(PushLoop(s), Some(LBRACK))
       ELSE Outcome(PushLoop(s), Ok, Some(LBRACK))

\* b'[' (pc is already past it)
OpenLoop(s) ==
  IF ~InBounds(s) THEN Outcome(s, Panic, Some(LBRACK))
  ELSE IF Cell(s) = 0 THEN skip_loop(s, Some(LBRACK))
       ELSE Outcome(PushLoop(s), Ok, Some(LBRACK))

\* mutant: a ']' with no open loop is ignored
CloseLoopIgnoresMissing(s) ==
  IF s.open_loops = <<>> THEN Outcome(s, Ok, Some(RBRACK))
  ELSE LET start == s.open_loops[Len(s.open_loops)]
           t == [s EXCEPT !.open_loops = SubSeq(s.open_loops, 1, Len(s.open_loops) - 1)]
       IN  IF ~InBounds(t) THEN Outcome(t, Panic, Some(RBRACK))
           ELSE IF Cell(t) # 0 THEN Outcome([t EXCEPT !.pc = start], Ok, Some(RBRACK))
                ELSE Outcome(t, Ok, Some(RBRACK))

\* mutant: open_loops moves back inline once it fits
CloseLoopShrinks(s) ==
  IF s.open_loops = <<>> THEN Outcome(s, ErrMissingOpenLoop, Some(RBRACK))
  ELSE LET start == s.open_loops[Len(s.open_loops)]
           t == [s EXCEPT !.open_loops = SubSeq(s.open_loops, 1, Len(s.open_loops) - 1),
                          !.loops_heap = FALSE]
       IN  IF ~InBounds(t) THEN Outcome(t, Panic, Some(RBRACK))
           ELSE IF Cell(t) # 0 THEN Outcome([t EXCEPT !.pc = start], Ok, Some(RBRACK))
                ELSE Outcome(t, Ok, Some(RBRACK))

\* mutant: the jump lands behind the '[' instead of on it
CloseLoopPastOpen(s) ==
  IF s.open_loops = <<>> THEN Outcome(s, ErrMissingOpenLoop, Some(RBRACK))
  ELSE LET start == s.open_loops[Len(s.open_loops)]
           t == [s EXCEPT !.open_loops = SubSeq(s.open_loops, 1, Len(s.open_loops) - 1)]
       IN  IF ~InBounds(t) THEN Outcome(t, Panic, Some(RBRACK))
           ELSE IF Cell(t) # 0 THEN Outcome([t EXCEPT !.pc = start + 1], Ok, Some(RBRACK))
                ELSE Outcome(t, Ok, Some(RBRACK))

\* mutant: a jump back leaves the loop's entry on open_loops
CloseLoopKeepsEntry(s) ==
  IF s.open_loops = <<>> THEN Outcome(s, ErrMissingOpenLoop, Some(RBRACK))
  ELSE LET start == s.open_loops[Len(s.open_loops)]
           t == [s EXCEPT !.open_loops = SubSeq(s.open_loops, 1, Len(s.open_loops) - 1)]
       IN  IF ~InBounds(s) THEN Outcome(t, Panic, Some(RBRACK))
           ELSE IF Cell(s) # 0 THEN Outcome([s EXCEPT !.pc = start], Ok, Some(RBRACK))
                ELSE Outcome(t, Ok, Some(RBRACK))

\* b']'
CloseLoop(s) ==
  IF s.open_loops = <<>> THEN Outcome(s, ErrMissingOpenLoop, Some(RBRACK))
  ELSE LET start == s.open_loops[Len(s.open_loops)]
           t == [s EXCEPT !.open_loops = SubSeq(s.open_loops, 1, Len(s.open_loops) - 1)]
       IN  IF ~InBounds(t) THEN Outcome(t, Panic, Some(RBRACK))
           ELSE IF Cell(t) # 0 THEN Outcome([t EXCEPT !.pc = start], Ok, Some(RBRACK))
                ELSE Outcome(t, Ok, Some(RBRACK))

\* mutant: the end of the buffer is success whatever is open
AtEndOk(s) == Ok

\* the result of step() and of run() once pc is at the end of the buffer
AtEnd(s) == IF s.open_loops = <<>> THEN Ok ELSE ErrOpenLoopsRemain

\* the match of step(), after pc has been advanced past byte b
Dispatch(s, b, answer, slack, oc) ==
  CASE b = GT -> MoveRight(s, slack, oc)
    [] b = LT -> MoveLeft(s, oc)
    [] b = PLUS -> Increment(s, oc)
    [] b = MINUS -> Decrement(s, oc)
    [] b = DOT -> Write(s, answer)
    [] b = COMMA -> Read(s)
    [] b = LBRACK -> OpenLoop(s)
    [] b = RBRACK -> CloseLoop(s)
    [] OTHER -> IF b \in AsciiWhitespace THEN Outcome(s, Ok, Some(b))
                ELSE Outcome(s, ErrUnexpectedByte, Some(b))

\* self.pc += 1, done before the match
Fetched(s) == [s EXCEPT !.pc = s.pc + 1]

\* mutant: an interrupted scan is not resumed
step_no_resume(s, answer, slack, oc) ==
  IF s.pc >= Len(s.program) THEN Outcome(s, AtEnd(s), None)
  ELSE Dispatch(Fetched(s), s.program[s.pc + 1], answer, slack, oc)

\* mutant: pc is advanced before the end of the buffer is tested
step_counts_past_end(s, answer, slack, oc) ==
  IF s.skiping_open_loop # None THEN skip_loop(s, None)
  ELSE IF s.pc >= Len(s.program) THEN Outcome(Fetched(s), AtEnd(s), None)
  ELSE Dispatch(Fetched(s), s.program[s.pc + 1], answer, slack, oc)

step(s, answer, slack, oc) ==
  IF s.skiping_open_loop # None THEN skip_loop(s, None)
  ELSE IF s.pc >= Len(s.program) THEN Outcome(s, AtEnd(s), None)
  ELSE Dispatch(Fetched(s), s.program[s.pc + 1], answer, slack, oc)


(***************************************************************************)
(* The inputs of the model.                                                *)
(***************************************************************************)
\* sequences over S of length at most n
SeqsUpTo(S, n) == UNION {[1..k -> S] : k \in 0..n}

\* the eight instructions, a whitespace byte and a byte that is neither
Bytes == Instructions \cup {32, 120}

InBytes == {255}

Inputs == SeqsUpTo(InBytes, MaxInput)

(***************************************************************************)
(* The operations.                                                         *)
(***************************************************************************)
\* the interpreter's fields are those of s
Holds(s) ==
  /\ memory = s.memory
  /\ mem_cap = s.mem_cap
  /\ mem_heap = s.mem_heap
  /\ ptr = s.ptr
  /\ pc = s.pc
  /\ program = s.program
  /\ prog_owned = s.prog_owned
  /\ input = s.input
  /\ output = s.output
  /\ open_loops = s.open_loops
  /\ loops_heap = s.loops_heap
  /\ skiping_open_loop = s.skiping_open_loop

\* the interpreter's fields become those of s
Becomes(s) ==
  /\ memory' = s.memory
  /\ mem_cap' = s.mem_cap
  /\ mem_heap' = s.mem_heap
  /\ ptr' = s.ptr
  /\ pc' = s.pc
  /\ program' = s.program
  /\ prog_owned' = s.prog_owned
  /\ input' = s.input
  /\ output' = s.output
  /\ open_loops' = s.open_loops
  /\ loops_heap' = s.loops_heap
  /\ skiping_open_loop' = s.skiping_open_loop

\* the next step() of s dispatches byte b
Dispatches(s, b) ==
  /\ s.skiping_open_loop = None
  /\ s.pc < Len(s.program)
  /\ s.program[s.pc + 1] = b

\* the next step() of s would extend the tape
WouldExtend(s) == Dispatches(s, GT) /\ s.ptr = s.mem_cap

\* the model's caps on the tape and on the output
MayStep(s, max_out) ==
  /\ WouldExtend(s) => Len(s.memory) < MS + MaxExtends * Chunk
  /\ Dispatches(s, DOT) => Len(s.output) < max_out

\* the three kinds of sink: an io::Write, a Vec<u8>, NoOutput
AnyWriter == {Accept, Fail}
VecSink == {Accept}
NoOutput == {Discard}

\* what a sink of kind sink may answer to the next step()'s push_byte
SinkAnswers(s, sink) ==
  IF Dispatches(s, DOT) /\ InBounds(s) THEN sink ELSE {CHOOSE a \in sink : TRUE}

\* the capacities the library may give a tape the next step() extends
Slacks(s) == IF WouldExtend(s) THEN 0..MaxSlack ELSE {0}

\* the caller may call: it is not inside run(), and no call has panicked
Idle == ~running /\ ret # Panic

\* what every operation leaves alone
Frame == UNCHANGED <<overflow_checks, rest, whole, cuts>>

\* one pass of run()'s `while self.pc < self.program.len() { self.step()?; }`
\* and of what follows the loop
RunPass(answer, slack, max_out) ==
  IF pc < Len(program)
  THEN /\ MayStep(Self, max_out)
       /\ LET o == step(Self, answer, slack, overflow_checks)
          IN  /\ Becomes(o.st)
              /\ ret' = o.ret
              /\ ins' = o.ins
              /\ running' = (o.ret = Ok)
  ELSE /\ Becomes(Self)
       /\ ret' = AtEnd(Self)
       /\ ins' = None
       /\ running' = FALSE

\* a call of step()
StepCall(sink, slacks, max_out) ==
  /\ Idle
  /\ MayStep(Self, max_out)
  /\ \E answer \in SinkAnswers(Self, sink), slack \in slacks :
       LET o == step(Self, answer, slack, overflow_checks)
       IN  /\ Becomes(o.st)
           /\ ret' = o.ret
           /\ ins' = o.ins
  /\ call' = "step"
  /\ arg' = <<>>
  /\ UNCHANGED running

\* a call of run(): its first pass
RunCall(sink, slacks, max_out) ==
  /\ Idle
  /\ \E answer \in SinkAnswers(Self, sink), slack \in slacks :
       RunPass(answer, slack, max_out)
  /\ call' = "run"
  /\ arg' = <<>>

\* run(), further passes
RunNext(sink, slacks, max_out) ==
  /\ running
  /\ \E answer \in SinkAnswers(Self, sink), slack \in slacks :
       RunPass(answer, slack, max_out)
  /\ UNCHANGED <<call, arg>>

Step == StepCall(AnyWriter, Slacks(Self), MaxOutput) /\ Frame

Run == RunCall(AnyWriter, Slacks(Self), MaxOutput) /\ Frame

RunLoop == RunNext(AnyWriter, Slacks(Self), MaxOutput) /\ Frame

\* mutant: the slice is put in front of the program
push_instruction_slice_front(s, bs) ==
  [s EXCEPT !.program = bs \o s.program, !.prog_owned = TRUE]

\* mutant: the byte is appended and the buffer stays Borrowed
push_instruction_borrowed(s, b) ==
  [s EXCEPT !.program = Append(s.program, b)]

\* self.program.to_mut(), which makes the buffer Owned, then push(ins)
push_instruction(s, b) ==
  [s EXCEPT !.program = Append(s.program, b), !.prog_owned = TRUE]

\* self.program.to_mut().extend_from_slice(ins)
push_instruction_slice(s, bs) ==
  [s EXCEPT !.program = s.program \o bs, !.prog_owned = TRUE]

\* self.program.to_mut().extend(iterator)
push_instructions_iter(s, bs) ==
  [s EXCEPT !.program = s.program \o bs, !.prog_owned = TRUE]

\* a push operation given the bytes bs has run and left the interpreter as
\* t; it returns (), recorded as Ok
PushCall(t, bs) ==
  /\ Becomes(t)
  /\ call' = "push"
  /\ arg' = bs
  /\ ret' = Ok
  /\ ins' = None
  /\ UNCHANGED running
  /\ Frame

\* the caller may append n bytes: the model's cap on the program
MayPush(n) == Idle /\ Len(program) + n <= MaxProg

PushInstruction ==
  /\ MayPush(1)
  /\ \E b \in Bytes : PushCall(push_instruction(Self, b), <<b>>)

PushInstructionSlice ==
  \E n \in 0..MaxSlice :
    /\ MayPush(n)
    /\ \E bs \in [1..n -> Bytes] : PushCall(push_instruction_slice(Self, bs), bs)

PushInstructionsIter ==
  \E n \in 0..MaxSlice :
    /\ MayPush(n)
    /\ \E bs \in [1..n -> Bytes] : PushCall(push_instructions_iter(Self, bs), bs)

\* the reference interpreter of the split runs, not in use
NoWhole == [st |-> with_custom_stack(<<>>, <<>>), ret |-> Ok, done |-> TRUE, slack |-> 0]

\* the state after Interpreter::new(prog, in, out), before any call
Constructed(prog, in) ==
  /\ Holds(with_custom_stack(prog, in))
  /\ running = FALSE
  /\ call = "new"
  /\ ret = Ok
  /\ ins = None
  /\ arg = <<>>

Init ==
  /\ \E prog \in SeqsUpTo(Bytes, MaxInit), in \in Inputs : Constructed(prog, in)
  /\ overflow_checks \in BOOLEAN
  /\ rest = <<>>
  /\ whole = NoWhole
  /\ cuts = {}

Next ==
  \/ Step
  \/ Run
  \/ RunLoop
  \/ PushInstruction
  \/ PushInstructionSlice
  \/ PushInstructionsIter

Spec == Init /\ [][Next]_vars

(***************************************************************************)
(* Tape runs: longer programs of the six instructions that use the tape,   *)
(* given whole at construction, then stepped and run.                      *)
(***************************************************************************)
TapeBytes == {GT, LT, PLUS, MINUS, DOT, COMMA}

InitTape ==
  /\ \E prog \in SeqsUpTo(TapeBytes, MaxTapeProg), in \in Inputs : Constructed(prog, in)
  /\ overflow_checks \in BOOLEAN
  /\ rest = <<>>
  /\ whole = NoWhole
  /\ cuts = {}

NextTape ==
  \/ Step
  \/ Run
  \/ RunLoop

SpecTape == InitTape /\ [][NextTape]_vars

(***************************************************************************)
(* The hello-world run of test hello_world: the program of the test,       *)
(* empty input, a Vec output, one run().                                   *)
(***************************************************************************)
\* b">+++++++++[<++++++++>-]<. ... [-]++++++++++." with its line breaks
\* and indentation
HelloWorld ==
  <<62, 43, 43, 43, 43, 43, 43, 43, 43, 43, 91, 60, 43, 43, 43, 43,
    43, 43, 43, 43, 62, 45, 93, 60, 46, 62, 43, 43, 43, 43, 43, 43,
    43, 91, 60, 43, 43, 43, 43, 62, 45, 93, 60, 43, 46, 43, 43, 43,
    43, 43, 43, 43, 46, 46, 43, 43, 43, 46, 91, 45, 93, 10, 32, 32,
    32, 32, 32, 32, 32, 32, 62, 43, 43, 43, 43, 43, 43, 43, 43, 91,
    60, 43, 43, 43, 43, 62, 45, 93, 32, 60, 46, 62, 43, 43, 43, 43,
    43, 43, 43, 43, 43, 43, 43, 91, 60, 43, 43, 43, 43, 43, 43, 43,
    43, 62, 45, 93, 60, 45, 46, 45, 45, 45, 45, 45, 45, 45, 45, 46,
    43, 43, 43, 10, 32, 32, 32, 32, 32, 32, 32, 32, 46, 45, 45, 45,
    45, 45, 45, 46, 45, 45, 45, 45, 45, 45, 45, 45, 46, 91, 45, 93,
    62, 43, 43, 43, 43, 43, 43, 43, 43, 91, 60, 43, 43, 43, 43, 62,
    45, 32, 93, 60, 43, 46, 91, 45, 93, 43, 43, 43, 43, 43, 43, 43,
    43, 43, 43, 46>>

\* b"Hello world!\n"
HelloOutput == <<72, 101, 108, 108, 111, 32, 119, 111, 114, 108, 100, 33, 10>>

InitHello ==
  /\ Constructed(HelloWorld, <<>>)
  /\ overflow_checks \in BOOLEAN
  /\ rest = <<>>
  /\ whole = NoWhole
  /\ cuts = {}

HelloRun == call = "new" /\ RunCall(VecSink, Slacks(Self), Len(HelloOutput)) /\ Frame

HelloRunLoop == RunNext(VecSink, Slacks(Self), Len(HelloOutput)) /\ Frame

NextHello ==
  \/ HelloRun
  \/ HelloRunLoop

SpecHello == InitHello /\ [][NextHello]_vars

(***************************************************************************)
(* One run() of a freshly built interpreter over a program of instruction  *)
(* bytes and whitespace, with a sink that keeps no bytes.  run() keeps     *)
(* executing until it returns: weak fairness of its passes.                *)
(***************************************************************************)
RunBytes == Instructions \cup {32}

InitRun ==
  /\ \E prog \in SeqsUpTo(RunBytes, MaxRunProg), in \in Inputs : Constructed(prog, in)
  /\ overflow_checks \in BOOLEAN
  /\ rest = <<>>
  /\ whole = NoWhole
  /\ cuts = {}

\* the sink drops the bytes, as NoOutput does, or fails
Dropping == NoOutput \cup {Fail}

FirstRun == call = "new" /\ RunCall(Dropping, Slacks(Self), MaxOutput) /\ Frame

FirstRunLoop == RunNext(Dropping, Slacks(Self), MaxOutput) /\ Frame

NextRun ==
  \/ FirstRun
  \/ FirstRunLoop

SpecRun == InitRun /\ [][NextRun]_vars /\ WF_vars(NextRun)

(***************************************************************************)
(* Split runs (tests hello_world_split, split_loop, push_iter): a balanced *)
(* program P is run whole by one interpreter, and by another that is built *)
(* with a prefix of P and alternates run() with appends of the next bytes  *)
(* of P.  Both have the same input, a Vec output and the same build.       *)
(***************************************************************************)
SplitBytes == Instructions

\* the brackets of prog are balanced and properly nested: the depth after
\* the first p bytes is d, never drops below 0 and ends at 0
RECURSIVE BalancedFrom(_, _, _)
BalancedFrom(prog, p, d) ==
  IF p = Len(prog) THEN d = 0
  ELSE LET b == prog[p + 1]
       IN  IF b = LBRACK THEN BalancedFrom(prog, p + 1, d + 1)
           ELSE IF b = RBRACK THEN d > 0 /\ BalancedFrom(prog, p + 1, d - 1)
           ELSE BalancedFrom(prog, p + 1, d)

Balanced(prog) == BalancedFrom(prog, 0, 0)

InitSplit ==
  /\ \E prog \in SeqsUpTo(SplitBytes, MaxSplitProg), in \in Inputs,
        k \in 0..MaxSplitProg :
       /\ Balanced(prog)
       /\ k <= Len(prog)
       /\ Constructed(SubSeq(prog, 1, k), in)
       /\ rest = SubSeq(prog, k + 1, Len(prog))
       /\ whole = [st |-> with_custom_stack(prog, in), ret |-> Ok,
                   done |-> FALSE, slack |-> 0]
  /\ overflow_checks \in BOOLEAN
  /\ cuts = {}

\* a pass of the whole program's run(); the capacity the library gives
\* the tape when it grows is recorded, the library being the same for both
\* interpreters
WholeRun ==
  /\ ~whole.done
  /\ IF whole.st.pc < Len(whole.st.program)
     THEN /\ MayStep(whole.st, MaxOutput)
          /\ \E slack \in Slacks(whole.st) :
               LET o == step(whole.st, Accept, slack, overflow_checks)
               IN  whole' = [st |-> o.st, ret |-> o.ret, done |-> (o.ret # Ok),
                             slack |-> slack]
     ELSE whole' = [whole EXCEPT !.ret = AtEnd(whole.st), !.done = TRUE]
  /\ UNCHANGED <<memory, mem_cap, mem_heap, ptr, pc, program, prog_owned, input,
                 output, open_loops, loops_heap, skiping_open_loop,
                 overflow_checks, running, call, ret, ins, arg, rest, cuts>>

SplitRun ==
  /\ whole.done
  /\ call # "run"
  /\ RunCall(VecSink, {whole.slack}, MaxOutput)
  /\ Frame

SplitRunLoop ==
  /\ whole.done
  /\ RunNext(VecSink, {whole.slack}, MaxOutput)
  /\ Frame

\* where an append cuts the program: inside a loop being skipped, inside a
\* loop being executed, or outside any loop
CutKind ==
  IF skiping_open_loop # None THEN "skipped"
  ELSE IF open_loops # <<>> THEN "executed" ELSE "outside"

\* after run() has returned at the end of the buffer, the next bytes of P
\* are appended: t is the interpreter after the push, of n bytes
PushRest(t, n) ==
  /\ whole.done
  /\ Idle
  /\ call = "run"
  /\ pc = Len(program)
  /\ Becomes(t)
  /\ rest' = SubSeq(rest, n + 1, Len(rest))
  /\ cuts' = cuts \cup {CutKind}
  /\ call' = "push"
  /\ arg' = SubSeq(rest, 1, n)
  /\ ret' = Ok
  /\ ins' = None
  /\ UNCHANGED <<overflow_checks, running, whole>>

PushRestSlice ==
  \E n \in 1..Len(rest) : PushRest(push_instruction_slice(Self, SubSeq(rest, 1, n)), n)

PushRestIter ==
  \E n \in 1..Len(rest) : PushRest(push_instructions_iter(Self, SubSeq(rest, 1, n)), n)

NextSplit ==
  \/ WholeRun
  \/ SplitRun
  \/ SplitRunLoop
  \/ PushRestSlice
  \/ PushRestIter

SpecSplit == InitSplit /\ [][NextSplit]_vars

(***************************************************************************)
(* Storage runs (tests tiny_vec_test_mem, tiny_vec_test_loops,             *)
(* tiny_vec_test_prog_owned): the interpreter is built over one of the     *)
(* borrowed test programs, stepped, run and appended to.                   *)
(***************************************************************************)
\* Interpreter::lives_on_stack: the tape and open_loops are inline and the
\* program is Borrowed (an Owned program has allocated:
\* tiny_vec_test_prog_owned)
lives_on_stack(s) == ~s.mem_heap /\ ~s.loops_heap /\ ~s.prog_owned

\* b">>...>": one '>' more than the tape holds inline
TestMem == [i \in 1..(MS + 1) |-> GT]

\* b"+[[[-]]]": one loop more than open_loops holds inline
TestLoops ==
  <<PLUS>> \o [i \in 1..(LS + 1) |-> LBRACK] \o <<MINUS>> \o [i \in 1..(LS + 1) |-> RBRACK]

\* b"+++"
TestProgOwned == <<PLUS, PLUS, PLUS>>

\* the bytes appended: those that make the tape and open_loops grow
StoreBytes == {GT, LBRACK}

InitStore ==
  /\ \E prog \in {TestMem, TestLoops, TestProgOwned} : Constructed(prog, <<>>)
  /\ overflow_checks \in BOOLEAN
  /\ rest = <<>>
  /\ whole = NoWhole
  /\ cuts = {}

\* inter.push_instruction(b), while the program is no longer than the
\* longest test program and MaxStorePush bytes
StorePush ==
  /\ Idle
  /\ Len(program) < Len(TestLoops) + MaxStorePush
  /\ \E b \in StoreBytes : PushCall(push_instruction(Self, b), <<b>>)

NextStore ==
  \/ Step
  \/ Run
  \/ RunLoop
  \/ StorePush

SpecStore == InitStore /\ [][NextStore]_vars

(***************************************************************************)
(* Loop runs: programs of cell arithmetic and brackets, long enough for    *)
(* nested loops that are entered, repeated, left and skipped; stepped, run *)
(* and appended to.                                                        *)
(***************************************************************************)
LoopBytes == {PLUS, MINUS, LBRACK, RBRACK}

InitLoops ==
  /\ \E prog \in SeqsUpTo(LoopBytes, MaxLoopProg) : Constructed(prog, <<>>)
  /\ overflow_checks \in BOOLEAN
  /\ rest = <<>>
  /\ whole = NoWhole
  /\ cuts = {}

LoopPush ==
  /\ Idle
  /\ Len(program) < MaxLoopProg
  /\ \E b \in LoopBytes : PushCall(push_instruction(Self, b), <<b>>)

NextLoops ==
  \/ Step
  \/ Run
  \/ RunLoop
  \/ LoopPush

SpecLoops == InitLoops /\ [][NextLoops]_vars

(***************************************************************************)
(* Vocabulary of the properties.                                           *)
(***************************************************************************)
\* this step of the model executes step(): a step() call, or a pass of
\* run()'s loop with pc inside the buffer
StepExecuted == call' = "step" \/ (call' = "run" /\ pc < Len(program))

\* this step of the model executes step() and step() dispatches byte b
Executes(b) == StepExecuted /\ Dispatches(Self, b)

\* run() has returned r
RunReturned(r) == call = "run" /\ ~running /\ ret = r

\* the bytes of a sequence
Range(f) == {f[i] : i \in 1..Len(f)}

(***************************************************************************)
(* C2: run() returns Ok only if on return pc equals the program length,    *)
(* open_loops is empty and skiping_open_loop is None; a run() that ends at *)
(* the buffer end with loops open or a skip pending returns                *)
(* OpenLoopsRemain.  The code's run() tests open_loops alone.              *)
(***************************************************************************)
C2_RunOkOnlyWhenComplete ==
  /\ RunReturned(Ok) =>
       /\ pc = Len(program)
       /\ open_loops = <<>>
       /\ skiping_open_loop = None
  /\ (/\ call = "run"
      /\ ~running
      /\ ret \in {Ok, ErrOpenLoopsRemain}
      /\ (open_loops # <<>> \/ skiping_open_loop # None)) => ret = ErrOpenLoopsRemain

(***************************************************************************)
(* C5: a ']' dispatched while open_loops is empty makes step() return      *)
(* MissingOpenLoop, run() return with it at once, and leaves the tape, the *)
(* cell pointer, the output and open_loops as they were.                   *)
(***************************************************************************)
C5_UnmatchedClose ==
  [][(Executes(RBRACK) /\ open_loops = <<>>) =>
       /\ ret' = ErrMissingOpenLoop
       /\ ~running'
       /\ memory' = memory
       /\ ptr' = ptr
       /\ output' = output
       /\ open_loops' = open_loops]_vars

\* run() has returned MissingOpenLoop with instructions left unexecuted
C5_Witness ==
  /\ RunReturned(ErrMissingOpenLoop)
  /\ ins = Some(RBRACK)
  /\ pc < Len(program)

(***************************************************************************)
(* C6: when the sink refuses the byte of a '.', step() returns             *)
(* Error::Output and pc still indexes that '.'.  The code advances pc      *)
(* before it dispatches.                                                   *)
(***************************************************************************)
C6_OutputFailureKeepsPc ==
  [][(Executes(DOT) /\ ret' = ErrOutput) => pc' = pc]_vars

(***************************************************************************)
(* C7: a ',' takes exactly one byte from the input and stores it in the    *)
(* current cell; with the input exhausted the cell becomes 0; either way   *)
(* step() returns Ok.  (The current cell exists: ptr indexes the tape.)    *)
(***************************************************************************)
C7_ReadStoresOrZero ==
  [][(Executes(COMMA) /\ InBounds(Self)) =>
       /\ ret' = Ok
       /\ input # <<>> =>
            /\ input' = Tail(input)
            /\ memory' = [memory EXCEPT ![ptr + 1] = Head(input)]
       /\ input = <<>> =>
            /\ input' = <<>>
            /\ memory' = [memory EXCEPT ![ptr + 1] = 0]]_vars

\* a second ',' has found the input exhausted and zeroed a cell that held
\* a byte read before
C7_Witness ==
  /\ ins = Some(COMMA)
  /\ ret = Ok
  /\ input = <<>>
  /\ pc = 2
  /\ program[1] = COMMA
  /\ program[2] = COMMA
  /\ InBounds(Self)
  /\ Cell(Self) = 0

(***************************************************************************)
(* C8: '+' makes the current cell (old + 1) mod 256 and '-' makes it       *)
(* (old - 1) mod 256, step() returning Ok.  With overflow checks the       *)
(* code's `+= 1` and `-= 1` panic at 255 and at 0.                         *)
(***************************************************************************)
C8_CellArithmeticWraps ==
  [][/\ (Executes(PLUS) /\ InBounds(Self)) =>
          /\ ret' = Ok
          /\ memory' = [memory EXCEPT ![ptr + 1] = (memory[ptr + 1] + 1) % CellMod]
     /\ (Executes(MINUS) /\ InBounds(Self)) =>
          /\ ret' = Ok
          /\ memory' = [memory EXCEPT ![ptr + 1] = (memory[ptr + 1] - 1) % CellMod]]_vars

(***************************************************************************)
(* C9: in a program without '<', ptr is always an index of the tape.  The  *)
(* code extends the tape when ptr equals the capacity before the move, so  *)
(* the MS-th '>' leaves ptr = MS on a tape of MS cells.                    *)
(***************************************************************************)
C9_PtrIndexesTape ==
  (LT \notin Range(program)) => ptr < Len(memory)

(***************************************************************************)
(* C10: the tape never shrinks; only a '>' changes its length, and then by *)
(* exactly Chunk cells, all 0, the old cells keeping their values; only    *)
(* '+', '-' and ',' change a cell.                                         *)
(***************************************************************************)
C10_TapeGrowth ==
  [][/\ Len(memory') >= Len(memory)
     /\ Len(memory') # Len(memory) =>
          /\ Executes(GT)
          /\ Len(memory') = Len(memory) + Chunk
          /\ \A i \in (Len(memory) + 1)..Len(memory') : memory'[i] = 0
     /\ \A i \in 1..Len(memory) :
          memory'[i] # memory[i] =>
            (Executes(PLUS) \/ Executes(MINUS) \/ Executes(COMMA))]_vars

\* the tape has been extended after a cell was written, and the cell kept
\* its value
C10_Witness ==
  /\ Len(memory) = MS + Chunk
  /\ ins = Some(GT)
  /\ ptr = MS + 1
  /\ memory[1] # 0

(***************************************************************************)
(* C3: the hello-world program of test hello_world, run from the initial   *)
(* state with empty input, makes run() return Ok with output               *)
(* "Hello world!\n".                                                       *)
(***************************************************************************)
C3_HelloWorld ==
  (call = "run" /\ ~running) => (ret = Ok /\ output = HelloOutput)

\* run() has returned at the end of the program
C3_Witness == RunReturned(Ok) /\ pc = Len(HelloWorld) /\ Len(output) = 13

\* the first run() has returned (a panic is no return)
Returned == call = "run" /\ ~running /\ ret # Panic

(***************************************************************************)
(* C4, as claimed: run() returns if and only if the program's brackets are *)
(* balanced and properly nested.                                           *)
(***************************************************************************)
C4_TerminatesIffBalanced ==
  /\ [](Returned => Balanced(program))
  /\ Balanced(program) => <>Returned

(***************************************************************************)
(* C4, amended: the first run() of a program of instruction bytes and      *)
(* whitespace, when it returns anything but an output error, returns Ok if *)
(* the brackets are balanced and MissingOpenLoop or OpenLoopsRemain if     *)
(* they are not.                                                           *)
(***************************************************************************)
C4_ReturnsOkIffBalanced ==
  (Returned /\ ret # ErrOutput) =>
    /\ ret \in {Ok, ErrMissingOpenLoop, ErrOpenLoopsRemain}
    /\ ret = Ok <=> Balanced(program)

\* run() has returned Ok from a program whose last byte closed a loop that
\* had been entered
C4_Witness ==
  /\ RunReturned(Ok)
  /\ Len(program) >= 4
  /\ program[1] \in {PLUS, MINUS}
  /\ program[2] = LBRACK
  /\ program[Len(program)] = RBRACK
  /\ pc = Len(program)

(***************************************************************************)
(* C1: for a balanced program P and any cuts of it, building the           *)
(* interpreter with the first piece, calling run(), appending the next     *)
(* piece and calling run() again, until P is whole, ends as a single run() *)
(* over P does: same result, output, tape, cell pointer and pc.            *)
(***************************************************************************)
\* the split interpreter holds all of P and its run() has returned
SplitFinished == whole.done /\ rest = <<>> /\ call = "run" /\ ~running

C1_SplitEqualsWhole ==
  SplitFinished =>
    /\ ret = whole.ret
    /\ output = whole.st.output
    /\ memory = whole.st.memory
    /\ ptr = whole.st.ptr
    /\ pc = whole.st.pc

\* P was cut twice, inside a loop being skipped and outside any loop, and
\* the last run() has returned Ok having written a cell and the output
C1_Witness ==
  /\ SplitFinished
  /\ ret = Ok
  /\ {"skipped", "outside"} \subseteq cuts
  /\ memory # Zeros(MS)
  /\ output # <<>>

\* likewise for a cut inside a loop being executed
C1_WitnessExecuted ==
  /\ SplitFinished
  /\ ret = Ok
  /\ "executed" \in cuts
  /\ memory # Zeros(MS)

(***************************************************************************)
(* C11: an append changes the program buffer alone: the bytes it was given *)
(* follow the old bytes, in order, and pc, the cell pointer, the tape,     *)
(* open_loops, skiping_open_loop, the input and the output are as before.  *)
(***************************************************************************)
C11_AppendOnlyProgram ==
  [][call' = "push" =>
       /\ program' = program \o arg'
       /\ pc' = pc
       /\ ptr' = ptr
       /\ memory' = memory
       /\ open_loops' = open_loops
       /\ skiping_open_loop' = skiping_open_loop
       /\ input' = input
       /\ output' = output]_vars

\* two different bytes have been appended after an instruction that wrote
\* a cell was executed
C11_Witness ==
  /\ call = "push"
  /\ Len(arg) = 2
  /\ arg[1] # arg[2]
  /\ Len(program) = 3
  /\ pc = 1
  /\ memory[1] # 0

\* the bytes that are neither instructions nor whitespace
Unexpected(b) == b \notin Instructions /\ b \notin AsciiWhitespace

\* this step of the model leaves the interpreter as it was, but for pc
OnlyPcChanges ==
  UNCHANGED <<memory, mem_cap, mem_heap, ptr, program, prog_owned, input, output,
              open_loops, loops_heap, skiping_open_loop>>

(***************************************************************************)
(* C12: step() returns UnexpectedByte(b) exactly when it dispatches a byte *)
(* b that is neither an instruction nor ASCII whitespace (the error        *)
(* carries the byte fetched, ins); a scan of skip_loop, fresh or resumed,  *)
(* never returns it.  Whitespace that is dispatched changes pc alone.      *)
(***************************************************************************)
C12_UnexpectedByte ==
  [][StepExecuted =>
       /\ \A b \in Bytes :
            /\ (Executes(b) /\ Unexpected(b)) =>
                 (ret' = ErrUnexpectedByte /\ ins' = Some(b))
            /\ (Executes(b) /\ b \in AsciiWhitespace) =>
                 (ret' = Ok /\ pc' = pc + 1 /\ OnlyPcChanges)
       /\ ret' = ErrUnexpectedByte =>
            \E b \in Bytes : Executes(b) /\ Unexpected(b)]_vars

\* a loop body holding a byte that is no instruction has been skipped to
\* its end, in a program that was appended to, without an error
C12_Witness ==
  /\ program = <<LBRACK, 120, RBRACK>>
  /\ pc = 3
  /\ skiping_open_loop = None
  /\ ret = Ok
  /\ call \in {"step", "run"}

\* lives_on_stack() of the interpreter
OnStack == lives_on_stack(Self)

(***************************************************************************)
(* C13: an interpreter built over a borrowed program lives on the stack,   *)
(* and stops doing so exactly on the step() that extends the tape beyond   *)
(* its MS inline cells, on the step() that pushes entry LS + 1 onto        *)
(* open_loops, and on the first append to the program.                     *)
(***************************************************************************)
C13_LeavesStackWhen ==
  /\ call = "new" => OnStack
  /\ [][OnStack =>
          (~OnStack' <=>
             \/ Executes(GT) /\ ptr = MS
             \/ Executes(LBRACK) /\ InBounds(Self) /\ Cell(Self) # 0
                  /\ Len(open_loops) = LS
             \/ call' = "push")]_vars

\* the tape is on the heap, open_loops is on the heap and the program is
\* owned
C13_Witness ==
  /\ mem_heap
  /\ loops_heap
  /\ prog_owned
  /\ Len(memory) = MS + Chunk
  /\ Len(open_loops) = LS + 1

(***************************************************************************)
(* C14: once lives_on_stack() is false it is false after every later       *)
(* step(), run() and append, also when open_loops has been popped empty.   *)
(***************************************************************************)
C14_NeverBackOnStack ==
  [][~OnStack => ~OnStack']_vars

\* run() of "+[[[-]]]" has returned: open_loops went to the heap and is
\* empty again, the tape is inline and the program borrowed
C14_Witness ==
  /\ RunReturned(Ok)
  /\ program = TestLoops
  /\ pc = Len(program)
  /\ open_loops = <<>>
  /\ loops_heap
  /\ ~mem_heap
  /\ ~prog_owned

\* how many of prog[a], .., prog[b] are the byte c
Count(prog, a, b, c) == Cardinality({k \in a..b : prog[k] = c})

\* how many more '[' than ']' there are among prog[a], .., prog[b]
Excess(prog, a, b) == Count(prog, a, b, LBRACK) - Count(prog, a, b, RBRACK)

\* one past the ']' that matches the '[' at index i of prog, or 0 if prog
\* does not hold that ']'
MatchEnd(prog, i) ==
  LET es == {e \in (i + 2)..Len(prog) : Excess(prog, i + 1, e) = 0}
  IN  IF es = {} THEN 0 ELSE CHOOSE e \in es : \A f \in es : e <= f

\* the index of the '[' whose skip scan stands at index p with depth d
ScanOrigin(prog, p, d) ==
  CHOOSE i \in 0..(p - 1) :
    /\ prog[i + 1] = LBRACK
    /\ Excess(prog, i + 1, p) = d
    /\ \A e \in (i + 1)..p : Excess(prog, i + 1, e) > 0

\* this step of the model runs the skip scan of the '[' at index i: it
\* changes pc and skiping_open_loop alone, ends one past the matching ']'
\* of the whole program P, or stops at the end of the buffer with the depth
\* reached
ScansFrom(i, P) ==
  /\ UNCHANGED <<memory, ptr, open_loops, output, input, program>>
  /\ pc' >= pc
  /\ IF MatchEnd(program, i) # 0
     THEN /\ pc' = MatchEnd(P, i)
          /\ skiping_open_loop' = None
          /\ ret' = Ok
     ELSE /\ pc' = Len(program)
          /\ skiping_open_loop' = Some(Excess(program, i + 1, Len(program)))
          /\ ret' = ErrOpenLoopsRemain

(***************************************************************************)
(* C15: a '[' dispatched on a zero cell scans to one past its matching     *)
(* ']' and changes pc and skiping_open_loop alone; a scan that stopped at  *)
(* the end of the buffer resumes at pc with the saved depth, never goes    *)
(* back, and ends where the scan of the whole program ends, however the    *)
(* program was cut.                                                        *)
(***************************************************************************)
C15_SkipScan ==
  [][StepExecuted =>
       /\ (Dispatches(Self, LBRACK) /\ InBounds(Self) /\ Cell(Self) = 0) =>
            ScansFrom(pc, program \o rest)
       /\ skiping_open_loop # None =>
            ScansFrom(ScanOrigin(program, pc, skiping_open_loop[1]), program \o rest)]_vars

\* the nested loops "[[]]" have been skipped, every append having cut the
\* program inside the scan
C15_Witness ==
  /\ SplitFinished
  /\ program = <<LBRACK, LBRACK, RBRACK, RBRACK>>
  /\ pc = 4
  /\ skiping_open_loop = None
  /\ ret = Ok
  /\ cuts = {"skipped"}

\* this step of the model leaves the interpreter as it was
InterpreterUnchanged ==
  UNCHANGED <<memory, mem_cap, mem_heap, ptr, pc, program, prog_owned, input,
              output, open_loops, loops_heap, skiping_open_loop>>

\* this step of the model executes a step() that runs the skip scan
ScanExecuted ==
  /\ StepExecuted
  /\ \/ skiping_open_loop # None
     \/ Dispatches(Self, LBRACK) /\ InBounds(Self) /\ Cell(Self) = 0

(***************************************************************************)
(* C16: skiping_open_loop is set only by a step() whose skip scan reaches  *)
(* the end of the buffer, which then returns OpenLoopsRemain with pc at    *)
(* the program length and a depth of at least 1, and is unset only by a    *)
(* step() whose scan completes.  While it is set a step() dispatches       *)
(* nothing and changes no cell, nor ptr, open_loops or the output; with pc *)
(* at the end of the buffer it returns OpenLoopsRemain and changes         *)
(* nothing.                                                                *)
(***************************************************************************)
C16_PendingSkip ==
  /\ skiping_open_loop = None
  /\ [][/\ skiping_open_loop' # None => skiping_open_loop'[1] >= 1
        /\ skiping_open_loop' # skiping_open_loop => ScanExecuted
        /\ (StepExecuted /\ skiping_open_loop' # None) =>
             /\ ScanExecuted
             /\ pc' = Len(program)
             /\ ret' = ErrOpenLoopsRemain
        /\ (skiping_open_loop # None /\ skiping_open_loop' = None) => ret' = Ok
        /\ (ScanExecuted /\ ret' = Ok) => skiping_open_loop' = None
        /\ (StepExecuted /\ skiping_open_loop # None) =>
             /\ ins' = None
             /\ UNCHANGED <<memory, ptr, open_loops, output>>
             /\ pc = Len(program) =>
                  (ret' = ErrOpenLoopsRemain /\ InterpreterUnchanged)]_vars

\* a step() has resumed a scan and left it interrupted at depth 2
C16_Witness ==
  /\ call = "step"
  /\ ins = None
  /\ ret = ErrOpenLoopsRemain
  /\ skiping_open_loop = Some(2)
  /\ pc = Len(program)

(***************************************************************************)
(* C17: with skiping_open_loop unset and pc at the end of the buffer,      *)
(* step() changes nothing and returns Ok if open_loops is empty and        *)
(* OpenLoopsRemain if it is not; so does the same call made again.         *)
(***************************************************************************)
C17_StepAtEnd ==
  [][(call' = "step" /\ skiping_open_loop = None /\ pc >= Len(program)) =>
       /\ InterpreterUnchanged
       /\ ins' = None
       /\ open_loops = <<>> => ret' = Ok
       /\ open_loops # <<>> => ret' = ErrOpenLoopsRemain]_vars

\* step() at the end of a program that has left a loop open
C17_Witness ==
  /\ call = "step"
  /\ ins = None
  /\ skiping_open_loop = None
  /\ pc = Len(program)
  /\ open_loops # <<>>
  /\ ret = ErrOpenLoopsRemain

\* the top of open_loops
Top(stack) == stack[Len(stack)]

\* this step of the model executes a ']' that jumps back: a loop is open
\* and the current cell is not 0
JumpsBack ==
  /\ Executes(RBRACK)
  /\ open_loops # <<>>
  /\ InBounds(Self)
  /\ Cell(Self) # 0

(***************************************************************************)
(* C18: pc is always between 0 and the program length; it decreases only   *)
(* in a step() that dispatches ']' with a loop open and a non-zero current *)
(* cell, and then becomes the index popped from open_loops, which holds a  *)
(* '['; every other step leaves pc where it was or moves it forward.       *)
(***************************************************************************)
C18_PcBackOnlyByLoop ==
  /\ [](pc >= 0 /\ pc <= Len(program))
  /\ [][/\ pc' < pc => JumpsBack
        /\ JumpsBack =>
             /\ pc' = Top(open_loops)
             /\ pc' < pc
             /\ program[pc' + 1] = LBRACK]_vars

\* the ']' of an inner loop has jumped back to its '[', the outer loop open
C18_Witness ==
  /\ ins = Some(RBRACK)
  /\ ret = Ok
  /\ pc = 2
  /\ Len(program) >= 4
  /\ program[pc + 1] = LBRACK
  /\ program[pc] = LBRACK
  /\ open_loops = <<1>>

\* the indices of the '[' among the first p bytes of prog that no ']' among
\* those bytes matches
UnmatchedOpens(prog, p) ==
  {i \in 0..(p - 1) :
     /\ prog[i + 1] = LBRACK
     /\ \A e \in (i + 1)..p : Excess(prog, i + 1, e) > 0}

\* every ']' among the first p bytes of prog matches a '[' before it
NoUnmatchedClose(prog, p) == \A e \in 1..p : Excess(prog, 1, e) >= 0

(***************************************************************************)
(* C19: after a call that returned, in an execution that has met no        *)
(* unmatched ']': with skiping_open_loop unset, open_loops holds exactly   *)
(* the indices of the '[' in program[0..pc) unmatched in program[0..pc);   *)
(* with skiping_open_loop = Some(d), there are Len(open_loops) + d such    *)
(* '['.                                                                    *)
(***************************************************************************)
C19_OpenLoopsAreUnmatched ==
  (ret # Panic /\ NoUnmatchedClose(program, pc)) =>
    IF skiping_open_loop = None
    THEN /\ Range(open_loops) = UnmatchedOpens(program, pc)
         /\ Len(open_loops) = Cardinality(UnmatchedOpens(program, pc))
    ELSE Cardinality(UnmatchedOpens(program, pc)) = Len(open_loops) + skiping_open_loop[1]

\* inside a loop that was entered, the scan of a loop that is skipped has
\* stopped at the end of the buffer
C19_Witness ==
  /\ ret = ErrOpenLoopsRemain
  /\ skiping_open_loop = Some(1)
  /\ open_loops = <<1>>
  /\ pc = 4
  /\ pc = Len(program)
  /\ program[4] = LBRACK

(***************************************************************************)
(* C20: a ']' dispatched with a loop open pops one entry of open_loops.    *)
(* With a non-zero current cell pc becomes the popped index, where the     *)
(* next step() finds the '[' and a non-zero cell, and an '[' dispatched on *)
(* a non-zero cell pushes its own index: the entry is back and open_loops  *)
(* as deep as before.  With a zero cell pc stays one past the ']'.         *)
(***************************************************************************)
C20_LoopRepeats ==
  [][/\ (Executes(RBRACK) /\ open_loops # <<>> /\ InBounds(Self)) =>
          /\ ret' = Ok
          /\ open_loops' = SubSeq(open_loops, 1, Len(open_loops) - 1)
          /\ Cell(Self) # 0 =>
               /\ pc' = Top(open_loops)
               /\ program'[pc' + 1] = LBRACK
               /\ skiping_open_loop' = None
               /\ memory'[ptr' + 1] # 0
          /\ Cell(Self) = 0 => pc' = pc + 1
     /\ (Executes(LBRACK) /\ InBounds(Self) /\ Cell(Self) # 0) =>
          /\ ret' = Ok
          /\ open_loops' = Append(open_loops, pc)
          /\ pc' = pc + 1]_vars

\* "++[-]" has left its loop: the body ran until the cell was 0 at the ']'
C20_Witness ==
  /\ program = <<PLUS, PLUS, LBRACK, MINUS, RBRACK>>
  /\ ins = Some(RBRACK)
  /\ ret = Ok
  /\ pc = 5
  /\ memory[1] = 0
  /\ open_loops = <<>>

(***************************************************************************)
(* C21: in every state the entries of open_loops increase strictly from    *)
(* bottom to top, each is below pc, and each is the index of a '[' of the  *)
(* program.                                                                *)
(***************************************************************************)
C21_OpenLoopsOrdered ==
  /\ \A i \in 1..(Len(open_loops) - 1) : open_loops[i] < open_loops[i + 1]
  /\ \A i \in 1..Len(open_loops) :
       /\ open_loops[i] >= 0
       /\ open_loops[i] < pc
       /\ open_loops[i] < Len(program)
       /\ program[open_loops[i] + 1] = LBRACK

\* the ']' of the innermost of three nested loops has jumped back to its
\* '[', two loops staying open below pc
C21_Witness ==
  /\ ins = Some(RBRACK)
  /\ ret = Ok
  /\ open_loops = <<1, 2>>
  /\ pc = 3
  /\ Len(program) = 5

=============================================================================
